---- MODULE Spec2Model ----
(***************************************************************************)
(* A model of the squirrelfmt lexer (src/lexer.rs).  The state is one      *)
(* Lexer object together with the value returned by the latest call of     *)
(* next_token; every handler next_token dispatches to is one action.       *)
(* Bytes are the integers 0..255, text is the sequence of its UTF-8 bytes, *)
(* and `index` is 0-based as in the source (source[index + 1] here).       *)
(***************************************************************************)
EXTENDS Integers, Sequences, FiniteSets, TLC

(* ---------------- byte constants, lexer.rs:1-33 ---------------- *)
NULL == 0
EXCLAMATION == 33
PERCENT == 37
AMPERSAND == 38
APOSTROPHE == 39
PAREN_OPEN == 40
PAREN_CLOSE == 41
ASTERISK == 42
PLUS == 43
COMMA == 44
MINUS == 45
DOT == 46
SLASH == 47
ZERO == 48
NINE == 57
COLON == 58
SEMICOLON == 59
LESS_THAN == 60
EQUAL == 61
GREATER_THAN == 62
UPPER_A == 65
UPPER_Z == 90
SQUARE_OPEN == 91
BACKSLASH == 92
SQUARE_CLOSE == 93
CARET == 94
UNDERSCORE == 95
LOWER_A == 97
LOWER_Z == 122
BRACE_OPEN == 123
BAR == 124
BRACE_CLOSE == 125
TILDE == 126

(* ---------------- bounds of the model ---------------- *)
\* longest source drawn from the whole byte alphabet
MaxWide == 2
\* longest source drawn from the core alphabet
MaxLen == 3
\* number of next_token calls made on one lexer
MaxCalls == 7

(* ---------------- data types ---------------- *)
\* Position::new
Position_new(line, column) == [line |-> line, column |-> column]

\* Token::new; start and end are pairs (line, column)
Token_new(kind, value, start, end) ==
  [kind |-> kind,
   value |-> value,
   start_position |-> Position_new(start[1], start[2]),
   end_position |-> Position_new(end[1], end[2])]

\* LexerError::new
LexerError_new(kind, line, column) ==
  [kind |-> kind, position |-> Position_new(line, column)]

\* the values of Option<Result<Token, LexerError>>, and an aborted call
SomeOk(token) == [tag |-> "Ok", token |-> token]
SomeErr(error) == [tag |-> "Err", error |-> error]
None == [tag |-> "None"]
Panic(what) == [tag |-> "Panic", what |-> what]
\* the value of `result` before the first call
NoCall == [tag |-> "NoCall"]

\* a handler's effect: the lexer it leaves and the value it returns
Ret(L, r) == [lexer |-> L, result |-> r]

(* ---------------- UTF-8 ---------------- *)
IsCont(b) == b >= 128 /\ b <= 191

\* str::from_utf8 succeeds on exactly the well-formed UTF-8 byte sequences
RECURSIVE ValidUtf8From(_, _)
ValidUtf8From(s, i) ==
  IF i > Len(s) THEN TRUE
  ELSE LET b == s[i] IN
    IF b <= 127 THEN ValidUtf8From(s, i + 1)
    ELSE IF b >= 194 /\ b <= 223
      THEN /\ i + 1 <= Len(s)
           /\ IsCont(s[i + 1])
           /\ ValidUtf8From(s, i + 2)
    ELSE IF b >= 224 /\ b <= 239
      THEN /\ i + 2 <= Len(s)
           /\ IsCont(s[i + 1])
           /\ (b = 224 => s[i + 1] >= 160)
           /\ (b = 237 => s[i + 1] <= 159)
           /\ IsCont(s[i + 2])
           /\ ValidUtf8From(s, i + 3)
    ELSE IF b >= 240 /\ b <= 244
      THEN /\ i + 3 <= Len(s)
           /\ IsCont(s[i + 1])
           /\ (b = 240 => s[i + 1] >= 144)
           /\ (b = 244 => s[i + 1] <= 143)
           /\ IsCont(s[i + 2])
           /\ IsCont(s[i + 3])
           /\ ValidUtf8From(s, i + 4)
    ELSE FALSE

ValidUtf8(s) == ValidUtf8From(s, 1)

(* ---------------- cursor primitives ---------------- *)
\* Lexer::new with the column counted from 0
Lexer_new_column0(src) ==
  [source |-> src, index |-> 0, line |-> 1, column |-> 0, did_send_eof |-> FALSE]

\* Lexer::new
Lexer_new(src) ==
  [source |-> src, index |-> 0, line |-> 1, column |-> 1, did_send_eof |-> FALSE]

\* Vec::get(index): the byte, or the sentinel outside the buffer
current_byte(L) ==
  IF L.index < Len(L.source) THEN L.source[L.index + 1] ELSE NULL

\* advance_char that does not count the column
advance_char_nocolumn(L) == [L EXCEPT !.index = @ + 1]

\* the lexer after advance_char; the byte it returns is current_byte of that
advance_char(L) == [L EXCEPT !.index = @ + 1, !.column = @ + 1]

advance_line(L) == [L EXCEPT !.index = @ + 1, !.line = @ + 1, !.column = 1]

\* terminate that leaves the cursor where it is
terminate_noindex(L) == [L EXCEPT !.did_send_eof = TRUE]

\* terminate that does not mark the end of stream as sent
terminate_noflag(L) == [L EXCEPT !.index = Len(L.source)]

\* terminate that moves index to the end only from inside the buffer
terminate_max(L) ==
  [L EXCEPT !.did_send_eof = TRUE,
            !.index = IF @ > Len(L.source) THEN @ ELSE Len(L.source)]

terminate(L) == [L EXCEPT !.did_send_eof = TRUE, !.index = Len(L.source)]

\* token_on_line_with_value that ends the token at the lexer's column
token_on_line_with_value_atcolumn(L, kind, value, start) ==
  Token_new(kind, value, <<L.line, start>>, <<L.line, L.column>>)

token_on_line_with_value(L, kind, value, start) ==
  Token_new(kind, value, <<L.line, start>>, <<L.line, L.column - 1>>)

token_on_line(L, kind, start) == token_on_line_with_value(L, kind, <<>>, start)

\* &source[a..b]: in range iff a <= b <= len
SliceOk(src, a, b) == a <= b /\ b <= Len(src)
Slice(src, a, b) == SubSeq(src, a + 1, b)

(* ---------------- end of stream ---------------- *)
\* eof that forgets to set the one-shot flag
eof_noflag(L) ==
  LET line == L.line
      column == L.column
  IN IF L.did_send_eof THEN Ret(L, None)
     ELSE IF column = 1
       THEN Ret(L, SomeOk(Token_new("Eof", <<>>, <<line, column>>, <<line, column>>)))
       ELSE Ret(L, SomeOk(token_on_line(L, "Eof", column - 1)))

\* eof that places the token at the lexer's column instead of one before it
eof_column(L) ==
  LET line == L.line
      column == L.column
  IN IF L.did_send_eof THEN Ret(L, None)
     ELSE LET L1 == [L EXCEPT !.did_send_eof = TRUE] IN
       IF column = 1
       THEN Ret(L1, SomeOk(Token_new("Eof", <<>>, <<line, column>>, <<line, column>>)))
       ELSE Ret(L1, SomeOk(Token_new("Eof", <<>>, <<line, column>>, <<line, column>>)))

\* eof that ends the stream through terminate
eof_terminate(L) ==
  LET line == L.line
      column == L.column
  IN IF L.did_send_eof THEN Ret(L, None)
     ELSE LET L1 == terminate(L) IN
       IF column = 1
       THEN Ret(L1, SomeOk(Token_new("Eof", <<>>, <<line, column>>, <<line, column>>)))
       ELSE Ret(L1, SomeOk(token_on_line(L1, "Eof", column - 1)))

eof(L) ==
  LET line == L.line
      column == L.column
  IN IF L.did_send_eof THEN Ret(L, None)
     ELSE LET L1 == [L EXCEPT !.did_send_eof = TRUE] IN
       IF column = 1
       THEN Ret(L1, SomeOk(Token_new("Eof", <<>>, <<line, column>>, <<line, column>>)))
       ELSE Ret(L1, SomeOk(token_on_line(L1, "Eof", column - 1)))

(* ---------------- identifiers and keywords ---------------- *)
IsIdentStart(b) ==
  \/ (b >= UPPER_A /\ b <= UPPER_Z)
  \/ (b >= LOWER_A /\ b <= LOWER_Z)
  \/ b = UNDERSCORE

IsIdentByte(b) == IsIdentStart(b) \/ (b >= ZERO /\ b <= NINE)

\* the while-let loop: advance, then test the byte advanced to
RECURSIVE scan_identifier(_)
\* the loop going on over letters and underscores only
RECURSIVE scan_identifier_nodigits(_)
scan_identifier_nodigits(L) ==
  LET L1 == advance_char(L)
  IN IF IsIdentStart(current_byte(L1)) THEN scan_identifier_nodigits(L1) ELSE L1

\* the loop going on over non-ASCII bytes too
RECURSIVE scan_identifier_wide(_)
scan_identifier_wide(L) ==
  LET L1 == advance_char(L)
  IN IF IsIdentByte(current_byte(L1)) \/ current_byte(L1) >= 128
     THEN scan_identifier_wide(L1) ELSE L1

scan_identifier(L) ==
  LET L1 == advance_char(L)
  IN IF IsIdentByte(current_byte(L1)) THEN scan_identifier(L1) ELSE L1

\* the inner matches of the length buckets
match_len2(value) ==
  CASE value = <<105, 102>> -> "If"
    [] value = <<105, 110>> -> "In"
    [] OTHER -> "Identifier"

match_len3(value) ==
  CASE value = <<102, 111, 114>> -> "For"
    [] value = <<116, 114, 121>> -> "Try"
    [] OTHER -> "Identifier"

match_len4(value) ==
  CASE value = <<98, 97, 115, 101>> -> "Base"
    [] value = <<99, 97, 115, 101>> -> "Case"
    [] value = <<101, 108, 115, 101>> -> "Else"
    [] value = <<101, 110, 117, 109>> -> "Enum"
    [] value = <<110, 117, 108, 108>> -> "Null"
    [] value = <<116, 104, 105, 115>> -> "This"
    [] value = <<116, 114, 117, 101>> -> "True"
    [] OTHER -> "Identifier"

match_len5(value) ==
  CASE value = <<98, 114, 101, 97, 107>> -> "Break"
    [] value = <<99, 97, 116, 99, 104>> -> "Catch"
    [] value = <<99, 108, 97, 115, 115>> -> "Class"
    [] value = <<99, 108, 111, 110, 101>> -> "Clone"
    [] value = <<99, 111, 110, 115, 116>> -> "Const"
    [] value = <<102, 97, 108, 115, 101>> -> "False"
    [] value = <<108, 111, 99, 97, 108>> -> "Local"
    [] value = <<116, 104, 114, 111, 119>> -> "Throw"
    [] value = <<119, 104, 105, 108, 101>> -> "While"
    [] value = <<121, 105, 101, 108, 100>> -> "Yield"
    [] OTHER -> "Identifier"

match_len6(value) ==
  CASE value = <<100, 101, 108, 101, 116, 101>> -> "Delete"
    [] value = <<114, 101, 115, 117, 109, 101>> -> "Resume"
    [] value = <<114, 101, 116, 117, 114, 110>> -> "Return"
    [] value = <<115, 116, 97, 116, 105, 99>> -> "Static"
    [] value = <<115, 119, 105, 116, 99, 104>> -> "Switch"
    [] value = <<116, 121, 112, 101, 111, 102>> -> "Typeof"
    [] OTHER -> "Identifier"

match_len7(value) ==
  CASE value = <<100, 101, 102, 97, 117, 108, 116>> -> "Default"
    [] value = <<101, 120, 116, 101, 110, 100, 115>> -> "Extends"
    [] value = <<102, 111, 114, 101, 97, 99, 104>> -> "Foreach"
    [] value = <<114, 97, 119, 99, 97, 108, 108>> -> "Rawcall"
    [] OTHER -> "Identifier"

match_len8(value) ==
  CASE value = <<95, 95, 70, 73, 76, 69, 95, 95>> -> "File"
    [] value = <<95, 95, 76, 73, 78, 69, 95, 95>> -> "Line"
    [] value = <<99, 111, 110, 116, 105, 110, 117, 101>> -> "Continue"
    [] value = <<102, 117, 110, 99, 116, 105, 111, 110>> -> "Function"
    [] OTHER -> "Identifier"

match_len10(value) ==
  CASE value = <<105, 110, 115, 116, 97, 110, 99, 101, 111, 102>> -> "InstanceOf"
    [] OTHER -> "Identifier"

match_len11(value) ==
  CASE value = <<99, 111, 110, 115, 116, 114, 117, 99, 116, 111, 114>> -> "Constructor"
    [] OTHER -> "Identifier"

\* the outer match with the buckets of lengths 10 and 11 exchanged
keyword_kind_swapped(value) ==
  CASE Len(value) = 2 -> match_len2(value)
    [] Len(value) = 3 -> match_len3(value)
    [] Len(value) = 4 -> match_len4(value)
    [] Len(value) = 5 -> match_len5(value)
    [] Len(value) = 6 -> match_len6(value)
    [] Len(value) = 7 -> match_len7(value)
    [] Len(value) = 8 -> match_len8(value)
    [] Len(value) = 10 -> match_len11(value)
    [] Len(value) = 11 -> match_len10(value)
    [] OTHER -> "Identifier"

\* the outer match on value.len()
keyword_kind(value) ==
  CASE Len(value) = 2 -> match_len2(value)
    [] Len(value) = 3 -> match_len3(value)
    [] Len(value) = 4 -> match_len4(value)
    [] Len(value) = 5 -> match_len5(value)
    [] Len(value) = 6 -> match_len6(value)
    [] Len(value) = 7 -> match_len7(value)
    [] Len(value) = 8 -> match_len8(value)
    [] Len(value) = 10 -> match_len10(value)
    [] Len(value) = 11 -> match_len11(value)
    [] OTHER -> "Identifier"

\* identifier_or_keyword that keeps the spelling as the value of keywords too
identifier_or_keyword_valued(L) ==
  LET column_start == L.column
      index_start == L.index
      L1 == scan_identifier(L)
  IN IF ~SliceOk(L1.source, index_start, L1.index) THEN Ret(L1, Panic("slice"))
     ELSE LET bytes == Slice(L1.source, index_start, L1.index) IN
       IF ~ValidUtf8(bytes) THEN Ret(L1, Panic("unwrap"))
       ELSE LET value == bytes
                kind == keyword_kind(value)
            IN Ret(L1, SomeOk(token_on_line_with_value(L1, kind, value, column_start)))

identifier_or_keyword(L) ==
  LET column_start == L.column
      index_start == L.index
      L1 == scan_identifier(L)
  IN IF ~SliceOk(L1.source, index_start, L1.index) THEN Ret(L1, Panic("slice"))
     ELSE LET bytes == Slice(L1.source, index_start, L1.index) IN
       IF ~ValidUtf8(bytes) THEN Ret(L1, Panic("unwrap"))
       ELSE LET value == bytes
                kind == keyword_kind(value)
            IN IF kind = "Identifier"
               THEN Ret(L1, SomeOk(token_on_line_with_value(L1, kind, value, column_start)))
               ELSE Ret(L1, SomeOk(token_on_line(L1, kind, column_start)))

(* ---------------- operators and punctuation ---------------- *)
\* the shape shared by the two-way handlers: `if advance_char() == next`
two_way(L, next, long, short) ==
  LET column_start == L.column
      L1 == advance_char(L)
  IN IF current_byte(L1) = next
     THEN LET L2 == advance_char(L1)
          IN Ret(L2, SomeOk(token_on_line(L2, long, column_start)))
     ELSE Ret(L1, SomeOk(token_on_line(L1, short, column_start)))

\* a single-byte handler that returns its token without advancing
one_byte_noadvance(L, kind) ==
  LET column_start == L.column
      L1 == [L EXCEPT !.column = @ + 1]
  IN Ret(L1, SomeOk(token_on_line(L1, kind, column_start)))

\* the shape shared by the single-byte handlers
one_byte(L, kind) ==
  LET column_start == L.column
      L1 == advance_char(L)
  IN Ret(L1, SomeOk(token_on_line(L1, kind, column_start)))

exclamation(L) == two_way(L, EQUAL, "Neq", "Not")

percent(L) == two_way(L, EQUAL, "ModAssign", "Mod")

ampersand(L) == two_way(L, AMPERSAND, "And", "BitAnd")

asterisk(L) == two_way(L, EQUAL, "MultAssign", "Mult")

plus(L) ==
  LET column_start == L.column
      L1 == advance_char(L)
      L2 == advance_char(L1)
  IN CASE current_byte(L1) = PLUS ->
            Ret(L2, SomeOk(token_on_line(L2, "Increment", column_start)))
       [] current_byte(L1) = EQUAL ->
            Ret(L2, SomeOk(token_on_line(L2, "AddAssign", column_start)))
       [] OTHER -> Ret(L1, SomeOk(token_on_line(L1, "Add", column_start)))

minus(L) ==
  LET column_start == L.column
      L1 == advance_char(L)
      L2 == advance_char(L1)
  IN CASE current_byte(L1) = MINUS ->
            Ret(L2, SomeOk(token_on_line(L2, "Decrement", column_start)))
       [] current_byte(L1) = EQUAL ->
            Ret(L2, SomeOk(token_on_line(L2, "SubAssign", column_start)))
       [] OTHER -> Ret(L1, SomeOk(token_on_line(L1, "Sub", column_start)))

slash(L) ==
  LET column_start == L.column
      L1 == advance_char(L)
      L2 == advance_char(L1)
  IN CASE current_byte(L1) = EQUAL ->
            Ret(L2, SomeOk(token_on_line(L2, "DivAssign", column_start)))
       [] current_byte(L1) = SLASH -> Ret(L1, Panic("todo"))
       [] OTHER -> Ret(L1, SomeOk(token_on_line(L1, "Div", column_start)))

\* less_than that does not look for `>` after `<=`
less_than_nospaceship(L) ==
  LET column_start == L.column
      L1 == advance_char(L)
      L2 == advance_char(L1)
  IN CASE current_byte(L1) = MINUS ->
            Ret(L2, SomeOk(token_on_line(L2, "Ins", column_start)))
       [] current_byte(L1) = LESS_THAN ->
            Ret(L2, SomeOk(token_on_line(L2, "BitLeft", column_start)))
       [] current_byte(L1) = EQUAL ->
            Ret(L2, SomeOk(token_on_line(L2, "Le", column_start)))
       [] OTHER -> Ret(L1, SomeOk(token_on_line(L1, "Lt", column_start)))

less_than(L) ==
  LET column_start == L.column
      L1 == advance_char(L)
      L2 == advance_char(L1)
      L3 == advance_char(L2)
  IN CASE current_byte(L1) = MINUS ->
            Ret(L2, SomeOk(token_on_line(L2, "Ins", column_start)))
       [] current_byte(L1) = LESS_THAN ->
            Ret(L2, SomeOk(token_on_line(L2, "BitLeft", column_start)))
       [] current_byte(L1) = EQUAL ->
            IF current_byte(L2) = GREATER_THAN
            THEN Ret(L3, SomeOk(token_on_line(L3, "Spaceship", column_start)))
            ELSE Ret(L2, SomeOk(token_on_line(L2, "Le", column_start)))
       [] OTHER -> Ret(L1, SomeOk(token_on_line(L1, "Lt", column_start)))

equal(L) == two_way(L, EQUAL, "Eq", "Assign")

greater_than(L) ==
  LET column_start == L.column
      L1 == advance_char(L)
      L2 == advance_char(L1)
      L3 == advance_char(L2)
  IN CASE current_byte(L1) = EQUAL ->
            Ret(L2, SomeOk(token_on_line(L2, "Ge", column_start)))
       [] current_byte(L1) = GREATER_THAN ->
            IF current_byte(L2) = GREATER_THAN
            THEN Ret(L3, SomeOk(token_on_line(L3, "UnsignedRight", column_start)))
            ELSE Ret(L2, SomeOk(token_on_line(L2, "BitRight", column_start)))
       [] OTHER -> Ret(L1, SomeOk(token_on_line(L1, "Gt", column_start)))

caret(L) == one_byte(L, "BitXor")

bar(L) == two_way(L, BAR, "Or", "BitOr")

tilde(L) == one_byte(L, "BitNot")

comma(L) == one_byte(L, "Comma")

\* the bracket handlers reading the byte after advancing
bracket_readafter(L, open, openKind, close, closeKind) ==
  LET column_start == L.column
      L1 == advance_char(L)
      byte == current_byte(L1)
  IN CASE byte = open -> Ret(L1, SomeOk(token_on_line(L1, openKind, column_start)))
       [] byte = close -> Ret(L1, SomeOk(token_on_line(L1, closeKind, column_start)))
       [] OTHER -> Ret(L1, Panic("unreachable"))

\* the shape shared by paren, square and brace: read the byte, advance, match
bracket(L, open, openKind, close, closeKind) ==
  LET column_start == L.column
      byte == current_byte(L)
      L1 == advance_char(L)
  IN CASE byte = open -> Ret(L1, SomeOk(token_on_line(L1, openKind, column_start)))
       [] byte = close -> Ret(L1, SomeOk(token_on_line(L1, closeKind, column_start)))
       [] OTHER -> Ret(L1, Panic("unreachable"))

paren(L) == bracket(L, PAREN_OPEN, "ParenOpen", PAREN_CLOSE, "ParenClose")

square(L) == bracket(L, SQUARE_OPEN, "SquareOpen", SQUARE_CLOSE, "SquareClose")

brace(L) == bracket(L, BRACE_OPEN, "BraceOpen", BRACE_CLOSE, "BraceClose")

dot(L) ==
  LET column_start == L.column
      L1 == advance_char(L)
      L2 == advance_char(L1)
      L3 == advance_char(L2)
  IN IF current_byte(L1) = DOT
     THEN IF current_byte(L2) = DOT
          THEN Ret(L3, SomeOk(token_on_line(L3, "Ellipsis", column_start)))
          ELSE Ret(L2, Panic("todo"))
     ELSE Ret(L1, SomeOk(token_on_line(L1, "Dot", column_start)))

colon(L) == two_way(L, COLON, "ScopeRes", "Colon")

semicolon(L) == one_byte(L, "Semicolon")

(* ---------------- character literals ---------------- *)
\* the arm with the slice starting at the closing apostrophe
char_ascii_slice(L1, column_start) ==
  LET L2 == advance_char(L1)
      L3 == advance_char(L2)
  IN IF current_byte(L2) = APOSTROPHE
     THEN LET index_start == L2.index IN
          IF ~SliceOk(L3.source, index_start, L3.index)
          THEN Ret(L3, Panic("slice"))
          ELSE LET bytes == Slice(L3.source, index_start, L3.index) IN
            IF ~ValidUtf8(bytes) THEN Ret(L3, Panic("unwrap"))
            ELSE Ret(L3, SomeOk(token_on_line_with_value(
                                  L3, "Char", bytes, column_start)))
     ELSE LET T == terminate(L2)
          IN Ret(T, SomeErr(LexerError_new("CharTooLong", T.line, T.column)))

\* the arm that reports CharTooLong without terminating
char_ascii_noterminate(L1, column_start) ==
  LET L2 == advance_char(L1)
      L3 == advance_char(L2)
  IN IF current_byte(L2) = APOSTROPHE
     THEN LET index_start == L2.index - 1 IN
          IF ~SliceOk(L3.source, index_start, L3.index - 1)
          THEN Ret(L3, Panic("slice"))
          ELSE LET bytes == Slice(L3.source, index_start, L3.index - 1) IN
            IF ~ValidUtf8(bytes) THEN Ret(L3, Panic("unwrap"))
            ELSE Ret(L3, SomeOk(token_on_line_with_value(
                                  L3, "Char", bytes, column_start)))
     ELSE Ret(L2, SomeErr(LexerError_new("CharTooLong", L2.line, L2.column)))

\* the arm counting a line when it steps over a newline byte
char_ascii_newline(L1, column_start) ==
  LET L2 == IF current_byte(L1) = 10 THEN advance_line(L1) ELSE advance_char(L1)
      L3 == advance_char(L2)
  IN IF current_byte(L2) = APOSTROPHE
     THEN LET index_start == L2.index - 1 IN
          IF ~SliceOk(L3.source, index_start, L3.index - 1)
          THEN Ret(L3, Panic("slice"))
          ELSE LET bytes == Slice(L3.source, index_start, L3.index - 1) IN
            IF ~ValidUtf8(bytes) THEN Ret(L3, Panic("unwrap"))
            ELSE Ret(L3, SomeOk(token_on_line_with_value(
                                  L3, "Char", bytes, column_start)))
     ELSE LET T == terminate(L2)
          IN Ret(T, SomeErr(LexerError_new("CharTooLong", T.line, T.column)))

\* the arm `0..=127 => match self.advance_char()`: L1 sits on the byte after
\* the opening apostrophe
char_ascii(L1, column_start) ==
  LET L2 == advance_char(L1)
      L3 == advance_char(L2)
  IN IF current_byte(L2) = APOSTROPHE
     THEN LET index_start == L2.index - 1 IN
          IF ~SliceOk(L3.source, index_start, L3.index - 1)
          THEN Ret(L3, Panic("slice"))
          ELSE LET bytes == Slice(L3.source, index_start, L3.index - 1) IN
            IF ~ValidUtf8(bytes) THEN Ret(L3, Panic("unwrap"))
            ELSE Ret(L3, SomeOk(token_on_line_with_value(
                                  L3, "Char", bytes, column_start)))
     ELSE LET T == terminate(L2)
          IN Ret(T, SomeErr(LexerError_new("CharTooLong", T.line, T.column)))

\* char that reports EmptyChar at the opening apostrophe
char_emptyatstart(L) ==
  LET column_start == L.column
      L1 == advance_char(L)
      b1 == current_byte(L1)
  IN CASE b1 = APOSTROPHE ->
            LET T == terminate(L1)
            IN Ret(T, SomeErr(LexerError_new("EmptyChar", T.line, column_start)))
       [] b1 = BACKSLASH -> Ret(L1, Panic("todo"))
       [] b1 >= 0 /\ b1 <= 127 /\ b1 # APOSTROPHE /\ b1 # BACKSLASH ->
            char_ascii(L1, column_start)
       [] OTHER ->
            LET T == terminate(L1)
            IN Ret(T, SomeErr(LexerError_new("CharOutOfBounds", T.line, T.column)))

\* char that tests the byte after a non-ASCII byte before reporting it
char_oobneedsquote(L) ==
  LET column_start == L.column
      L1 == advance_char(L)
      b1 == current_byte(L1)
  IN CASE b1 = APOSTROPHE ->
            LET T == terminate(L1)
            IN Ret(T, SomeErr(LexerError_new("EmptyChar", T.line, T.column)))
       [] b1 = BACKSLASH -> Ret(L1, Panic("todo"))
       [] b1 >= 0 /\ b1 <= 127 /\ b1 # APOSTROPHE /\ b1 # BACKSLASH ->
            char_ascii(L1, column_start)
       [] OTHER ->
            LET L2 == advance_char(L1)
                T == terminate(L2)
            IN IF current_byte(L2) = APOSTROPHE
               THEN Ret(terminate(L1),
                        SomeErr(LexerError_new("CharOutOfBounds", L1.line, L1.column)))
               ELSE Ret(T, SomeErr(LexerError_new("CharTooLong", T.line, T.column)))

char(L) ==
  LET column_start == L.column
      L1 == advance_char(L)
      b1 == current_byte(L1)
  IN CASE b1 = APOSTROPHE ->
            LET T == terminate(L1)
            IN Ret(T, SomeErr(LexerError_new("EmptyChar", T.line, T.column)))
       [] b1 = BACKSLASH -> Ret(L1, Panic("todo"))
       [] b1 >= 0 /\ b1 <= 127 /\ b1 # APOSTROPHE /\ b1 # BACKSLASH ->
            char_ascii(L1, column_start)
       [] OTHER ->
            LET T == terminate(L1)
            IN Ret(T, SomeErr(LexerError_new("CharOutOfBounds", T.line, T.column)))

\* the `_` arm reporting the position after stepping over the byte
unexpected_symbol_advanced(L) ==
  LET T == terminate(advance_char(L))
  IN Ret(T, SomeErr(LexerError_new("UnexpectedSymbol", T.line, T.column)))

\* the `_` arm of next_token
unexpected_symbol(L) ==
  LET T == terminate(L)
  IN Ret(T, SomeErr(LexerError_new("UnexpectedSymbol", T.line, T.column)))

\* the classification switch of next_token: the handler chosen for byte b
Dispatch(b) ==
  CASE b = NULL -> "eof"
    [] IsIdentStart(b) -> "identifier_or_keyword"
    [] b = EXCLAMATION -> "exclamation"
    [] b = PERCENT -> "percent"
    [] b = AMPERSAND -> "ampersand"
    [] b = ASTERISK -> "asterisk"
    [] b = PLUS -> "plus"
    [] b = MINUS -> "minus"
    [] b = SLASH -> "slash"
    [] b = LESS_THAN -> "less_than"
    [] b = EQUAL -> "equal"
    [] b = GREATER_THAN -> "greater_than"
    [] b = CARET -> "caret"
    [] b = BAR -> "bar"
    [] b = TILDE -> "tilde"
    [] b = COMMA -> "comma"
    [] b = PAREN_OPEN \/ b = PAREN_CLOSE -> "paren"
    [] b = SQUARE_OPEN \/ b = SQUARE_CLOSE -> "square"
    [] b = BRACE_OPEN \/ b = BRACE_CLOSE -> "brace"
    [] b = DOT -> "dot"
    [] b = COLON -> "colon"
    [] b = SEMICOLON -> "semicolon"
    [] b = APOSTROPHE -> "char"
    [] OTHER -> "unexpected_symbol"

(* ---------------- the sources the lexer is created from ---------------- *)
\* the bytes the short exhaustive sources are made of: the sentinel, newline,
\* the bytes of the three-byte operators and of character literals, a letter,
\* and the two bytes of U+00E4
Core ==
  {NULL, 10, APOSTROPHE, BACKSLASH, DOT, SLASH, LESS_THAN, EQUAL, GREATER_THAN,
   102, 195, 164}

\* every byte some arm of next_token names, and bytes of the default arm
Wide ==
  Core \cup
  {32, 34, 35, 36, 63, 64, 96, 127, 49, 105, 110, 156,
   EXCLAMATION, PERCENT, AMPERSAND, PAREN_OPEN, PAREN_CLOSE, ASTERISK, PLUS,
   COMMA, MINUS, COLON, SEMICOLON, SQUARE_OPEN, SQUARE_CLOSE, CARET,
   UNDERSCORE, BRACE_OPEN, BAR, BRACE_CLOSE, TILDE}

SeqsUpTo(A, n) == UNION {[1..k -> A] : k \in 0..n}

\* the reserved words: spelling and kind
ReservedWords ==
  {<<<<105, 102>>, "If">>, <<<<105, 110>>, "In">>,
   <<<<102, 111, 114>>, "For">>, <<<<116, 114, 121>>, "Try">>,
   <<<<98, 97, 115, 101>>, "Base">>, <<<<99, 97, 115, 101>>, "Case">>,
   <<<<101, 108, 115, 101>>, "Else">>, <<<<101, 110, 117, 109>>, "Enum">>,
   <<<<110, 117, 108, 108>>, "Null">>, <<<<116, 104, 105, 115>>, "This">>,
   <<<<116, 114, 117, 101>>, "True">>,
   <<<<98, 114, 101, 97, 107>>, "Break">>, <<<<99, 97, 116, 99, 104>>, "Catch">>,
   <<<<99, 108, 97, 115, 115>>, "Class">>, <<<<99, 108, 111, 110, 101>>, "Clone">>,
   <<<<99, 111, 110, 115, 116>>, "Const">>, <<<<102, 97, 108, 115, 101>>, "False">>,
   <<<<108, 111, 99, 97, 108>>, "Local">>, <<<<116, 104, 114, 111, 119>>, "Throw">>,
   <<<<119, 104, 105, 108, 101>>, "While">>, <<<<121, 105, 101, 108, 100>>, "Yield">>,
   <<<<100, 101, 108, 101, 116, 101>>, "Delete">>,
   <<<<114, 101, 115, 117, 109, 101>>, "Resume">>,
   <<<<114, 101, 116, 117, 114, 110>>, "Return">>,
   <<<<115, 116, 97, 116, 105, 99>>, "Static">>,
   <<<<115, 119, 105, 116, 99, 104>>, "Switch">>,
   <<<<116, 121, 112, 101, 111, 102>>, "Typeof">>,
   <<<<100, 101, 102, 97, 117, 108, 116>>, "Default">>,
   <<<<101, 120, 116, 101, 110, 100, 115>>, "Extends">>,
   <<<<102, 111, 114, 101, 97, 99, 104>>, "Foreach">>,
   <<<<114, 97, 119, 99, 97, 108, 108>>, "Rawcall">>,
   <<<<95, 95, 70, 73, 76, 69, 95, 95>>, "File">>,
   <<<<95, 95, 76, 73, 78, 69, 95, 95>>, "Line">>,
   <<<<99, 111, 110, 116, 105, 110, 117, 101>>, "Continue">>,
   <<<<102, 117, 110, 99, 116, 105, 111, 110>>, "Function">>,
   <<<<105, 110, 115, 116, 97, 110, 99, 101, 111, 102>>, "InstanceOf">>,
   <<<<99, 111, 110, 115, 116, 114, 117, 99, 116, 111, 114>>, "Constructor">>}

Keywords == {rw[1] : rw \in ReservedWords}

\* the identifiers of tests::identifiers
TestIdentifiers ==
  {<<95>>, <<102>>, <<70>>, <<102, 49>>, <<95, 49>>, <<95, 95>>,
   <<102, 111, 111>>, <<95, 95, 102, 111>>, <<95, 95, 50, 102, 111>>,
   <<70, 111, 111, 66, 97, 114>>, <<102, 79, 111, 50, 66, 97, 82>>,
   <<102, 111, 111, 66, 97, 114, 66, 97>>,
   <<72, 65, 76, 70, 95, 76, 73, 70, 69>>,
   <<112, 111, 114, 116, 97, 108, 95, 116, 119, 111>>,
   <<95, 95, 68, 117, 109, 112, 83, 99, 111, 112, 101>>,
   <<95, 95, 48, 102, 111, 111, 98, 97, 114, 98, 97, 122>>,
   <<95, 95, 95, 48, 49, 50, 51, 52, 53, 54, 55, 56, 57>>}

\* the inputs of tests::unexpected_symbol, char_oob and char_too_long
TestSources ==
  {<<195, 164, 110, 100, 101, 114, 110>>, <<39, 195, 156, 39>>,
   <<39, 120, 100, 39>>}

\* a keyword, and identifier-shaped words one edit away from it: one byte
\* longer, one byte shorter, first byte in the other case, last byte changed
NearKeyword(k) ==
  {k, k \o <<120>>, k \o <<49>>, k \o <<UNDERSCORE>>, <<UNDERSCORE>> \o k,
   SubSeq(k, 1, Len(k) - 1),
   [k EXCEPT ![1] = IF @ >= LOWER_A /\ @ <= LOWER_Z THEN @ - 32 ELSE @ + 32],
   [k EXCEPT ![Len(k)] = IF @ = 122 THEN 97 ELSE 122],
   k \o <<PAREN_OPEN>>, k \o <<NULL, 102>>}

Corpus ==
  TestIdentifiers \cup TestSources \cup UNION {NearKeyword(k) : k \in Keywords}

\* Lexer::new takes a &str: the sources are the well-formed UTF-8 sequences
Sources ==
  {s \in SeqsUpTo(Wide, MaxWide) \cup SeqsUpTo(Core, MaxLen) \cup Corpus :
     ValidUtf8(s)}

(* ---------------- the state machine ---------------- *)
VARIABLES
  lexer,    \* the Lexer object: source, index, line, column, did_send_eof
  result,   \* what the latest call of next_token returned
  calls,    \* number of calls of next_token made so far
  eofs,     \* number of those calls that returned the Eof token
  errs      \* number of those calls that returned an error

vars == <<lexer, result, calls, eofs, errs>>

IsEofToken(r) == r.tag = "Ok" /\ r.token.kind = "Eof"

Init ==
  /\ \E s \in Sources : lexer = Lexer_new(s)
  /\ result = NoCall
  /\ calls = 0
  /\ eofs = 0
  /\ errs = 0

\* the return of one call of next_token whose handler had effect r
Return(r) ==
  /\ lexer' = r.lexer
  /\ result' = r.result
  /\ calls' = calls + 1
  /\ eofs' = IF IsEofToken(r.result) THEN eofs + 1 ELSE eofs
  /\ errs' = IF r.result.tag = "Err" THEN errs + 1 ELSE errs

\* next_token can be called: no call has aborted, and the call budget is left
Callable == result.tag # "Panic" /\ calls < MaxCalls

\* the dispatch taking a 0 byte for the end of stream only outside the buffer
Handler_bounded ==
  IF current_byte(lexer) = NULL /\ lexer.index < Len(lexer.source)
  THEN "unexpected_symbol"
  ELSE Dispatch(current_byte(lexer))

\* the handler next_token dispatches to in the current state
Handler == Dispatch(current_byte(lexer))

Eof ==
  /\ Callable
  /\ Handler = "eof"
  /\ Return(eof(lexer))
IdentifierOrKeyword ==
  /\ Callable
  /\ Handler = "identifier_or_keyword"
  /\ Return(identifier_or_keyword(lexer))
Exclamation ==
  /\ Callable
  /\ Handler = "exclamation"
  /\ Return(exclamation(lexer))
Percent ==
  /\ Callable
  /\ Handler = "percent"
  /\ Return(percent(lexer))
Ampersand ==
  /\ Callable
  /\ Handler = "ampersand"
  /\ Return(ampersand(lexer))
Asterisk ==
  /\ Callable
  /\ Handler = "asterisk"
  /\ Return(asterisk(lexer))
Plus ==
  /\ Callable
  /\ Handler = "plus"
  /\ Return(plus(lexer))
Minus ==
  /\ Callable
  /\ Handler = "minus"
  /\ Return(minus(lexer))
Slash ==
  /\ Callable
  /\ Handler = "slash"
  /\ Return(slash(lexer))
LessThan ==
  /\ Callable
  /\ Handler = "less_than"
  /\ Return(less_than(lexer))
Equal ==
  /\ Callable
  /\ Handler = "equal"
  /\ Return(equal(lexer))
GreaterThan ==
  /\ Callable
  /\ Handler = "greater_than"
  /\ Return(greater_than(lexer))
Caret ==
  /\ Callable
  /\ Handler = "caret"
  /\ Return(caret(lexer))
Bar ==
  /\ Callable
  /\ Handler = "bar"
  /\ Return(bar(lexer))
Tilde ==
  /\ Callable
  /\ Handler = "tilde"
  /\ Return(tilde(lexer))
Comma ==
  /\ Callable
  /\ Handler = "comma"
  /\ Return(comma(lexer))
Paren ==
  /\ Callable
  /\ Handler = "paren"
  /\ Return(paren(lexer))
Square ==
  /\ Callable
  /\ Handler = "square"
  /\ Return(square(lexer))
Brace ==
  /\ Callable
  /\ Handler = "brace"
  /\ Return(brace(lexer))
Dot ==
  /\ Callable
  /\ Handler = "dot"
  /\ Return(dot(lexer))
Colon ==
  /\ Callable
  /\ Handler = "colon"
  /\ Return(colon(lexer))
Semicolon ==
  /\ Callable
  /\ Handler = "semicolon"
  /\ Return(semicolon(lexer))
Char ==
  /\ Callable
  /\ Handler = "char"
  /\ Return(char(lexer))
UnexpectedSymbol ==
  /\ Callable
  /\ Handler = "unexpected_symbol"
  /\ Return(unexpected_symbol(lexer))

Next ==
  \/ Eof
  \/ IdentifierOrKeyword
  \/ Exclamation
  \/ Percent
  \/ Ampersand
  \/ Asterisk
  \/ Plus
  \/ Minus
  \/ Slash
  \/ LessThan
  \/ Equal
  \/ GreaterThan
  \/ Caret
  \/ Bar
  \/ Tilde
  \/ Comma
  \/ Paren
  \/ Square
  \/ Brace
  \/ Dot
  \/ Colon
  \/ Semicolon
  \/ Char
  \/ UnexpectedSymbol

Spec == Init /\ [][Next]_vars

(* ---------------- properties ---------------- *)
\* the byte of src at 0-based index i, the sentinel outside the buffer
ByteAt(src, i) == IF i < Len(src) THEN src[i + 1] ELSE NULL

\* C1: once a call has returned None or the Eof token, the next call (and so
\* every later call) returns None; the Eof token is not emitted again.
C1_ExhaustedStaysExhausted ==
  [][(result.tag = "None" \/ IsEofToken(result)) => result'.tag = "None"]_vars

\* the empty source after three calls: Eof, None, None
C1_Witness ==
  /\ lexer.source = <<>>
  /\ calls = 3
  /\ eofs = 1
  /\ result.tag = "None"

\* C2: when a call returns an error, did_send_eof is true and index is the
\* source length on return, the next call returns None, every result after
\* an error is None, and at most one error is returned by one lexer.
C2_StopAtFirstError ==
  /\ [](result.tag = "Err" =>
          lexer.did_send_eof /\ lexer.index = Len(lexer.source))
  /\ [][result.tag = "Err" => result'.tag = "None"]_vars
  /\ [](errs >= 1 => result.tag \in {"Err", "None"})
  /\ [](errs <= 1)

\* an error, then None twice
C2_Witness ==
  /\ errs = 1
  /\ calls >= 3
  /\ result.tag = "None"

\* C3 as stated: a scan that has reached None has returned exactly one Eof
\* token.
C3_ExactlyOneEof == result.tag = "None" => eofs = 1

\* C3 amended: never more than one Eof token is returned, and a scan that
\* has reached None has returned one Eof token if no call returned an error
\* and none if a call returned an error.
C3_OneEofUnlessError ==
  /\ eofs <= 1
  /\ (result.tag = "None" => (IF errs = 0 THEN eofs = 1 ELSE eofs = 0))

\* a scan that ended in None after an error, without any Eof token
C3_Witness ==
  /\ result.tag = "None"
  /\ errs = 1
  /\ eofs = 0

\* C4: no call of next_token aborts.
C4_NoPanic == result.tag # "Panic"

\* the multi-character operators: spelling and kind
MultiCharOperators ==
  {<<<<EXCLAMATION, EQUAL>>, "Neq">>, <<<<PERCENT, EQUAL>>, "ModAssign">>,
   <<<<AMPERSAND, AMPERSAND>>, "And">>, <<<<ASTERISK, EQUAL>>, "MultAssign">>,
   <<<<PLUS, PLUS>>, "Increment">>, <<<<PLUS, EQUAL>>, "AddAssign">>,
   <<<<MINUS, MINUS>>, "Decrement">>, <<<<MINUS, EQUAL>>, "SubAssign">>,
   <<<<SLASH, EQUAL>>, "DivAssign">>, <<<<LESS_THAN, MINUS>>, "Ins">>,
   <<<<LESS_THAN, LESS_THAN>>, "BitLeft">>, <<<<LESS_THAN, EQUAL>>, "Le">>,
   <<<<LESS_THAN, EQUAL, GREATER_THAN>>, "Spaceship">>,
   <<<<EQUAL, EQUAL>>, "Eq">>, <<<<GREATER_THAN, EQUAL>>, "Ge">>,
   <<<<GREATER_THAN, GREATER_THAN>>, "BitRight">>,
   <<<<GREATER_THAN, GREATER_THAN, GREATER_THAN>>, "UnsignedRight">>,
   <<<<BAR, BAR>>, "Or">>, <<<<DOT, DOT, DOT>>, "Ellipsis">>,
   <<<<COLON, COLON>>, "ScopeRes">>}

\* C5: a lexer created from exactly the spelling of a multi-character
\* operator returns first one token of that operator's kind spanning columns
\* 1..len on line 1, and second the Eof token.
C5_LongestMatch ==
  \A op \in MultiCharOperators :
    lexer.source = op[1] =>
      /\ calls = 1 =>
           /\ result.tag = "Ok"
           /\ result.token.kind = op[2]
           /\ result.token.start_position = Position_new(1, 1)
           /\ result.token.end_position = Position_new(1, Len(op[1]))
      /\ calls = 2 => IsEofToken(result)

\* `<=>` lexed to its end
C5_Witness ==
  /\ lexer.source = <<LESS_THAN, EQUAL, GREATER_THAN>>
  /\ calls = 2
  /\ IsEofToken(result)

\* first byte an ASCII letter or underscore, the rest letters, digits or
\* underscores
IdentShaped(w) ==
  /\ Len(w) >= 1
  /\ IsIdentStart(w[1])
  /\ \A i \in 2..Len(w) : IsIdentByte(w[i])

\* C6: for a source that is one identifier-shaped word w, the first token has
\* the kind of the reserved word spelled w if there is one, and otherwise is
\* an Identifier whose value is w; either way it spans columns 1..len(w).
C6_KeywordPartition ==
  (calls = 1 /\ IdentShaped(lexer.source)) =>
    LET w == lexer.source IN
    /\ result.tag = "Ok"
    /\ \A rw \in ReservedWords : (result.token.kind = rw[2] <=> w = rw[1])
    /\ (w \notin Keywords =>
          result.token.kind = "Identifier" /\ result.token.value = w)
    /\ result.token.start_position = Position_new(1, 1)
    /\ result.token.end_position = Position_new(1, Len(w))

\* `instanceof` lexed as its keyword
C6_Witness ==
  /\ lexer.source = <<105, 110, 115, 116, 97, 110, 99, 101, 111, 102>>
  /\ calls = 1
  /\ result.tag = "Ok"
  /\ result.token.kind = "InstanceOf"

\* C7: the Eof token emitted at column 1 starts and ends at (line, 1);
\* emitted at another column it starts and ends at (line, column - 1), the
\* end of the token the call before returned.  Source "" gives Eof at (1,1),
\* source "if" gives Eof at (1,2).
C7_EofPosition ==
  /\ [][IsEofToken(result') =>
          LET t == result'.token
              p == IF lexer.column = 1
                   THEN Position_new(lexer.line, 1)
                   ELSE Position_new(lexer.line, lexer.column - 1)
          IN /\ t.start_position = p
             /\ t.end_position = p
             /\ (lexer.column # 1 =>
                   result.tag = "Ok" /\ result.token.end_position = p)]_vars
  /\ []((lexer.source = <<>> /\ calls = 1) =>
          result = SomeOk(Token_new("Eof", <<>>, <<1, 1>>, <<1, 1>>)))
  /\ []((lexer.source = <<105, 102>> /\ calls = 2) =>
          result = SomeOk(Token_new("Eof", <<>>, <<1, 2>>, <<1, 2>>)))

\* the Eof token emitted after a token that ended past column 1
C7_Witness ==
  /\ IsEofToken(result)
  /\ lexer.column > 2
  /\ result.token.end_position = Position_new(1, lexer.column - 1)

\* C8: a token that is not an Identifier or a Char has an empty value; an
\* Identifier's value is the bytes of the source from its start column to
\* its end column; a Char's value is the one byte between its apostrophes.
C8_ValuePayload ==
  result.tag = "Ok" =>
    LET t == result.token
        a == t.start_position.column
        b == t.end_position.column
        src == lexer.source
    IN CASE t.kind = "Identifier" ->
              /\ a <= b
              /\ b <= Len(src)
              /\ t.value = SubSeq(src, a, b)
         [] t.kind = "Char" ->
              /\ b = a + 2
              /\ b <= Len(src)
              /\ src[a] = APOSTROPHE
              /\ src[b] = APOSTROPHE
              /\ t.value = <<src[a + 1]>>
         [] OTHER -> t.value = <<>>

\* an Identifier that does not start the source
C8_Witness ==
  /\ result.tag = "Ok"
  /\ result.token.kind = "Identifier"
  /\ result.token.start_position.column > 1
  /\ result.token.value # <<>>

\* the state before a call has an apostrophe as current byte, then a byte of
\* 0..=127 that is no apostrophe and no backslash
AtCharAscii ==
  /\ current_byte(lexer) = APOSTROPHE
  /\ ByteAt(lexer.source, lexer.index + 1) \in (0..127) \ {APOSTROPHE, BACKSLASH}

\* C9: at an apostrophe in column c followed by such a byte b and then an
\* apostrophe, the call returns the Char token with value b spanning
\* (line, c)..(line, c + 2), consumes 3 bytes and does not terminate the lexer.
C9_CharSuccess ==
  [][(/\ calls' = calls + 1
      /\ AtCharAscii
      /\ ByteAt(lexer.source, lexer.index + 2) = APOSTROPHE) =>
       /\ result' = SomeOk(Token_new("Char",
                                     <<ByteAt(lexer.source, lexer.index + 1)>>,
                                     <<lexer.line, lexer.column>>,
                                     <<lexer.line, lexer.column + 2>>))
       /\ lexer'.index = lexer.index + 3
       /\ lexer'.column = lexer.column + 3
       /\ lexer'.did_send_eof = FALSE]_vars

\* the Char token of 'f'
C9_Witness ==
  /\ result.tag = "Ok"
  /\ result.token.kind = "Char"
  /\ result.token.value = <<102>>
  /\ lexer.index = 3

\* C10: at an apostrophe in column c followed by such a byte and then by
\* anything but an apostrophe, the call returns CharTooLong at (line, c + 2)
\* and leaves the lexer exhausted, so the call after it returns None;
\* "'xd'" gives CharTooLong at (1, 3), then None.
C10_CharTooLong ==
  /\ [][(/\ calls' = calls + 1
         /\ AtCharAscii
         /\ ByteAt(lexer.source, lexer.index + 2) # APOSTROPHE) =>
          /\ result' = SomeErr(LexerError_new("CharTooLong",
                                              lexer.line, lexer.column + 2))
          /\ lexer'.did_send_eof
          /\ lexer'.index = Len(lexer.source)]_vars
  /\ [][(result.tag = "Err" /\ result.error.kind = "CharTooLong"
         /\ calls' = calls + 1) => result'.tag = "None"]_vars
  /\ []((lexer.source = <<39, 120, 100, 39>> /\ calls = 1) =>
          result = SomeErr(LexerError_new("CharTooLong", 1, 3)))
  /\ []((lexer.source = <<39, 120, 100, 39>> /\ calls = 2) =>
          result.tag = "None")

\* None returned after CharTooLong was reported past column 3
C10_Witness ==
  /\ result.tag = "None"
  /\ errs = 1
  /\ lexer.column > 3
  /\ ByteAt(lexer.source, lexer.column - 3) = APOSTROPHE
  /\ ByteAt(lexer.source, lexer.column - 1) # APOSTROPHE

\* C11: at an apostrophe in column c followed by an apostrophe, the call
\* returns EmptyChar at (line, c + 1) and leaves the lexer exhausted, so the
\* call after it returns None; "''" gives EmptyChar at (1, 2), then None.
C11_EmptyChar ==
  /\ [][(/\ calls' = calls + 1
         /\ ByteAt(lexer.source, lexer.index) = APOSTROPHE
         /\ ByteAt(lexer.source, lexer.index + 1) = APOSTROPHE) =>
          /\ result' = SomeErr(LexerError_new("EmptyChar",
                                              lexer.line, lexer.column + 1))
          /\ lexer'.did_send_eof
          /\ lexer'.index = Len(lexer.source)]_vars
  /\ [][(result.tag = "Err" /\ result.error.kind = "EmptyChar"
         /\ calls' = calls + 1) => result'.tag = "None"]_vars
  /\ []((lexer.source = <<39, 39>> /\ calls = 1) =>
          result = SomeErr(LexerError_new("EmptyChar", 1, 2)))
  /\ []((lexer.source = <<39, 39>> /\ calls = 2) => result.tag = "None")

\* None returned after EmptyChar was reported for a literal past column 1
C11_Witness ==
  /\ result.tag = "None"
  /\ errs = 1
  /\ lexer.column > 2
  /\ ByteAt(lexer.source, lexer.column - 2) = APOSTROPHE
  /\ ByteAt(lexer.source, lexer.column - 1) = APOSTROPHE

\* C12: at an apostrophe in column c followed by a byte above 127, the call
\* returns CharOutOfBounds at (line, c + 1) whatever follows that byte, and
\* leaves the lexer exhausted, so the call after it returns None.
C12_CharOutOfBounds ==
  /\ [][(/\ calls' = calls + 1
         /\ ByteAt(lexer.source, lexer.index) = APOSTROPHE
         /\ ByteAt(lexer.source, lexer.index + 1) > 127) =>
          /\ result' = SomeErr(LexerError_new("CharOutOfBounds",
                                              lexer.line, lexer.column + 1))
          /\ lexer'.did_send_eof
          /\ lexer'.index = Len(lexer.source)]_vars
  /\ [][(result.tag = "Err" /\ result.error.kind = "CharOutOfBounds"
         /\ calls' = calls + 1) => result'.tag = "None"]_vars
  /\ []((lexer.source = <<39, 195, 156, 39>> /\ calls = 1) =>
          result = SomeErr(LexerError_new("CharOutOfBounds", 1, 2)))

\* CharOutOfBounds reported for a non-ASCII character that no apostrophe
\* follows
C12_Witness ==
  /\ result.tag = "Err"
  /\ result.error.kind = "CharOutOfBounds"
  /\ Len(lexer.source) = 3
  /\ lexer.source[1] = APOSTROPHE
  /\ lexer.source[2] > 127

\* the bytes that begin an operator or a punctuation mark
OperatorLeading ==
  {EXCLAMATION, PERCENT, AMPERSAND, ASTERISK, PLUS, MINUS, SLASH, LESS_THAN,
   EQUAL, GREATER_THAN, CARET, BAR, TILDE, COMMA, PAREN_OPEN, PAREN_CLOSE,
   SQUARE_OPEN, SQUARE_CLOSE, BRACE_OPEN, BRACE_CLOSE, DOT, COLON, SEMICOLON}

\* a byte no arm of the dispatch names: not 0, no ASCII letter or underscore,
\* no apostrophe, no leading byte of an operator or punctuation mark
Unrecognized(b) ==
  /\ b # 0
  /\ ~(b >= 65 /\ b <= 90)
  /\ ~(b >= 97 /\ b <= 122)
  /\ b # 95
  /\ b # 39
  /\ b \notin OperatorLeading

\* C13: a call that starts at an unrecognized byte returns UnexpectedSymbol
\* at the lexer's (line, column) of that moment, the column is not advanced,
\* and the lexer is left exhausted, so the call after it returns None.  The
\* bytes named by the claim are unrecognized.
C13_UnexpectedSymbol ==
  /\ [][(/\ calls' = calls + 1
         /\ Unrecognized(ByteAt(lexer.source, lexer.index))) =>
          /\ result' = SomeErr(LexerError_new("UnexpectedSymbol",
                                              lexer.line, lexer.column))
          /\ lexer'.column = lexer.column
          /\ lexer'.line = lexer.line
          /\ lexer'.did_send_eof
          /\ lexer'.index = Len(lexer.source)]_vars
  /\ [][(result.tag = "Err" /\ result.error.kind = "UnexpectedSymbol"
         /\ calls' = calls + 1) => result'.tag = "None"]_vars
  /\ [](\A b \in {32, 10, 49, 34, 35, 36, 63, 64, 92, 96, 127, 195} :
          (Len(lexer.source) >= 1 /\ lexer.source[1] = b /\ calls = 1) =>
            result = SomeErr(LexerError_new("UnexpectedSymbol", 1, 1)))

\* None returned after UnexpectedSymbol was reported past column 1
C13_Witness ==
  /\ result.tag = "None"
  /\ errs = 1
  /\ lexer.column = 2
  /\ Len(lexer.source) = 2
  /\ Unrecognized(lexer.source[2])

\* C14 as stated: in every state between calls line = 1 and
\* column = index + 1.
C14_CursorInvariant ==
  /\ lexer.line = 1
  /\ lexer.column = lexer.index + 1

\* C14 amended: line = 1 always; column = index + 1 as long as no call has
\* returned an error; the call that returns an error leaves index at the
\* source length and column at the column of the error.
C14_CursorUntilError ==
  /\ lexer.line = 1
  /\ (errs = 0 => lexer.column = lexer.index + 1)
  /\ (errs > 0 => lexer.index = Len(lexer.source))
  /\ (result.tag = "Err" => lexer.column = result.error.position.column)

\* the cursor two tokens into a source, no error so far
C14_Witness ==
  /\ errs = 0
  /\ calls = 2
  /\ result.tag = "Ok"
  /\ result.token.kind # "Eof"
  /\ lexer.index >= 2

\* the current byte is the sentinel: outside the buffer, or a 0 byte in it
AtSentinel(L) ==
  \/ L.index >= Len(L.source)
  \/ L.source[L.index + 1] = 0

\* C15: a call that starts at the sentinel, be it past the end of the buffer
\* or a 0 byte inside it, returns the Eof token, or None if the end of stream
\* was sent already; it does not move the cursor, so every later call starts
\* at the same sentinel and the bytes after an embedded 0 yield nothing.
C15_SentinelEndsStream ==
  [][(calls' = calls + 1 /\ AtSentinel(lexer)) =>
       /\ (IF lexer.did_send_eof THEN result' = None ELSE IsEofToken(result'))
       /\ lexer'.did_send_eof
       /\ lexer'.index = lexer.index
       /\ AtSentinel(lexer')]_vars

\* None returned at a 0 byte that has a byte after it
C15_Witness ==
  /\ result.tag = "None"
  /\ eofs = 1
  /\ lexer.index + 1 < Len(lexer.source)
  /\ lexer.source[lexer.index + 1] = 0

\* the operators and punctuation marks of one byte: spelling and kind
SingleByteOperators ==
  {<<<<EXCLAMATION>>, "Not">>, <<<<PERCENT>>, "Mod">>,
   <<<<AMPERSAND>>, "BitAnd">>, <<<<ASTERISK>>, "Mult">>,
   <<<<PLUS>>, "Add">>, <<<<MINUS>>, "Sub">>, <<<<SLASH>>, "Div">>,
   <<<<LESS_THAN>>, "Lt">>, <<<<EQUAL>>, "Assign">>,
   <<<<GREATER_THAN>>, "Gt">>, <<<<CARET>>, "BitXor">>,
   <<<<BAR>>, "BitOr">>, <<<<TILDE>>, "BitNot">>, <<<<COMMA>>, "Comma">>,
   <<<<PAREN_OPEN>>, "ParenOpen">>, <<<<PAREN_CLOSE>>, "ParenClose">>,
   <<<<SQUARE_OPEN>>, "SquareOpen">>, <<<<SQUARE_CLOSE>>, "SquareClose">>,
   <<<<BRACE_OPEN>>, "BraceOpen">>, <<<<BRACE_CLOSE>>, "BraceClose">>,
   <<<<DOT>>, "Dot">>, <<<<COLON>>, "Colon">>, <<<<SEMICOLON>>, "Semicolon">>}

AllOperators == SingleByteOperators \cup MultiCharOperators

\* spelling sp lies in src at 0-based index i
SpelledAt(sp, src, i) ==
  /\ i + Len(sp) <= Len(src)
  /\ \A k \in 1..Len(sp) : src[i + k] = sp[k]

\* the longest operator spelled at index i of src
LongestOperatorAt(src, i) ==
  CHOOSE op \in AllOperators :
    /\ SpelledAt(op[1], src, i)
    /\ \A other \in AllOperators :
         SpelledAt(other[1], src, i) => Len(other[1]) <= Len(op[1])

\* C16: a call that starts at the leading byte of an operator returns the
\* longest operator spelled there, spanning exactly its bytes, and leaves the
\* byte after it as the current byte; `>>=` gives BitRight over columns 1-2
\* and then Assign at column 3, `+-` gives Add and then Sub.
C16_ExactConsumption ==
  /\ [][(/\ calls' = calls + 1
         /\ ByteAt(lexer.source, lexer.index) \in OperatorLeading) =>
          LET op == LongestOperatorAt(lexer.source, lexer.index)
              n == Len(op[1])
          IN /\ result' = SomeOk(Token_new(op[2], <<>>,
                                           <<lexer.line, lexer.column>>,
                                           <<lexer.line, lexer.column + n - 1>>))
             /\ lexer'.index = lexer.index + n
             /\ lexer'.column = lexer.column + n]_vars
  /\ []((lexer.source = <<GREATER_THAN, GREATER_THAN, EQUAL>> /\ calls = 1) =>
          result = SomeOk(Token_new("BitRight", <<>>, <<1, 1>>, <<1, 2>>)))
  /\ []((lexer.source = <<GREATER_THAN, GREATER_THAN, EQUAL>> /\ calls = 2) =>
          result = SomeOk(Token_new("Assign", <<>>, <<1, 3>>, <<1, 3>>)))
  /\ []((lexer.source = <<PLUS, MINUS>> /\ calls = 1) =>
          result = SomeOk(Token_new("Add", <<>>, <<1, 1>>, <<1, 1>>)))
  /\ []((lexer.source = <<PLUS, MINUS>> /\ calls = 2) =>
          result = SomeOk(Token_new("Sub", <<>>, <<1, 2>>, <<1, 2>>)))

\* C17: a token other than Eof starts and ends on the lexer's line, starts
\* at the column the lexer had when the call began, ends one column before
\* the column the lexer has when the call returns, has start <= end, and
\* spans as many columns as index advanced during the call.
C17_SpanIsConsumption ==
  [][(calls' = calls + 1 /\ result'.tag = "Ok" /\ result'.token.kind # "Eof") =>
       LET t == result'.token IN
       /\ t.start_position.line = lexer'.line
       /\ t.end_position.line = lexer'.line
       /\ lexer'.line = lexer.line
       /\ t.start_position.column = lexer.column
       /\ t.end_position.column = lexer'.column - 1
       /\ t.start_position.column <= t.end_position.column
       /\ t.end_position.column - t.start_position.column + 1
            = lexer'.index - lexer.index]_vars

\* a token of two bytes that does not start the source
C17_Witness ==
  /\ result.tag = "Ok"
  /\ result.token.kind # "Eof"
  /\ result.token.start_position.column = 2
  /\ result.token.end_position.column = 3
  /\ lexer.index = 3

\* the kinds of identifiers and reserved words
WordKinds == {"Identifier"} \cup {rw[2] : rw \in ReservedWords}

\* C18: the byte after an identifier or keyword token is no letter, digit or
\* underscore; a token that follows an identifier or keyword token is not an
\* identifier or keyword; a keyword spelling followed by an identifier byte
\* is one Identifier token (`ifx`, `if1`, `in_`).
C18_GreedyIdentifier ==
  /\ []((result.tag = "Ok" /\ result.token.kind \in WordKinds) =>
          ~IsIdentByte(ByteAt(lexer.source, result.token.end_position.column)))
  /\ [][(/\ result.tag = "Ok"
         /\ result.token.kind \in WordKinds
         /\ result'.tag = "Ok"
         /\ calls' = calls + 1) => result'.token.kind \notin WordKinds]_vars
  /\ [](\A w \in {<<105, 102, 120>>, <<105, 102, 49>>, <<105, 110, 95>>} :
          (lexer.source = w /\ calls = 1) =>
            result = SomeOk(Token_new("Identifier", w, <<1, 1>>, <<1, 3>>)))

\* `if1` lexed as one Identifier
C18_Witness ==
  /\ lexer.source = <<105, 102, 49>>
  /\ calls = 1
  /\ result.tag = "Ok"
  /\ result.token.kind = "Identifier"
  /\ lexer.index = 3

\* C19: an error returned on a source of n bytes is at line 1 and at a
\* column c with 1 <= c <= n + 1.
C19_ErrorInsideSource ==
  result.tag = "Err" =>
    /\ result.error.position.line = 1
    /\ result.error.position.column >= 1
    /\ result.error.position.column <= Len(lexer.source) + 1

\* C20: line is 1 in every state, and so is the line of every token and of
\* every error; a call that starts at a newline byte returns UnexpectedSymbol
\* and leaves line alone; a newline between apostrophes is a Char token on
\* line 1.
C20_LineNeverChanges ==
  /\ [](lexer.line = 1)
  /\ [](result.tag = "Ok" =>
          /\ result.token.start_position.line = 1
          /\ result.token.end_position.line = 1)
  /\ [](result.tag = "Err" => result.error.position.line = 1)
  /\ [][(calls' = calls + 1 /\ ByteAt(lexer.source, lexer.index) = 10) =>
          /\ result'.tag = "Err"
          /\ result'.error.kind = "UnexpectedSymbol"
          /\ lexer'.line = lexer.line]_vars
  /\ []((lexer.source = <<39, 10, 39>> /\ calls = 1) =>
          result = SomeOk(Token_new("Char", <<10>>, <<1, 1>>, <<1, 3>>)))

\* the Char token of a newline between apostrophes
C20_Witness ==
  /\ result.tag = "Ok"
  /\ result.token.kind = "Char"
  /\ result.token.value = <<10>>

\* a token other than Eof
IsPlainToken(r) == r.tag = "Ok" /\ r.token.kind # "Eof"

\* C21: a call that returns a token other than Eof moves index forward by at
\* least 1, and such a call follows only calls of the same sort, so the
\* tokens returned so far are as many as the calls and at most as many as
\* the bytes consumed, which are at most the n bytes of the source; the
\* identifier loop leaves index on a byte that is no identifier byte, inside
\* the buffer or on the sentinel right after it; a run of n + 2 calls or
\* more that did not abort has reached None.
C21_ScanningTerminates ==
  /\ [][(calls' = calls + 1 /\ IsPlainToken(result')) =>
          /\ lexer'.index >= lexer.index + 1
          /\ (result = NoCall \/ IsPlainToken(result))]_vars
  /\ [](IsPlainToken(result) =>
          /\ eofs = 0
          /\ errs = 0
          /\ calls <= lexer.index
          /\ lexer.index <= Len(lexer.source))
  /\ []((IsPlainToken(result) /\ result.token.kind \in WordKinds) =>
          /\ lexer.index <= Len(lexer.source)
          /\ ~IsIdentByte(ByteAt(lexer.source, lexer.index)))
  /\ []((calls >= Len(lexer.source) + 2 /\ result.tag # "Panic") =>
          result.tag = "None")

\* None returned by call n + 2 after n tokens and the Eof token
C21_Witness ==
  /\ result.tag = "None"
  /\ Len(lexer.source) >= 2
  /\ calls = Len(lexer.source) + 2
  /\ eofs = 1
  /\ errs = 0

\* C22: the first call returns a token that starts at (1,1) or, when no arm
\* matches the first byte, UnexpectedSymbol at (1,1); of two tokens other
\* than Eof returned by consecutive calls, the later starts one column after
\* the end of the earlier.
C22_ContiguousTokens ==
  /\ [](calls = 0 => lexer.index = 0 /\ lexer.line = 1 /\ lexer.column = 1)
  /\ []((calls = 1 /\ result.tag = "Ok") =>
          result.token.start_position = Position_new(1, 1))
  /\ []((calls = 1 /\ result.tag = "Err"
                   /\ result.error.kind = "UnexpectedSymbol") =>
          result.error.position = Position_new(1, 1))
  /\ [][(calls' = calls + 1 /\ IsPlainToken(result) /\ IsPlainToken(result')) =>
          /\ result'.token.start_position.line = result.token.end_position.line
          /\ result'.token.start_position.column
               = result.token.end_position.column + 1]_vars

\* a third token in a row that starts right after the second
C22_Witness ==
  /\ IsPlainToken(result)
  /\ calls = 3
  /\ result.token.start_position.column = 3

\* C23: a call that returns None leaves every field of the lexer as it was;
\* the call that returns the Eof token finds did_send_eof false, sets it and
\* leaves the other fields as they were; no call changes source.
C23_EofFrame ==
  [][calls' = calls + 1 =>
       /\ lexer'.source = lexer.source
       /\ (result'.tag = "None" => lexer' = lexer)
       /\ (IsEofToken(result') =>
             /\ ~lexer.did_send_eof
             /\ lexer' = [lexer EXCEPT !.did_send_eof = TRUE])]_vars

\* the Eof token returned at a 0 byte inside the buffer, index left on it
C23_Witness ==
  /\ IsEofToken(result)
  /\ lexer.index > 0
  /\ lexer.index < Len(lexer.source)
  /\ lexer.did_send_eof

\* C24: when a call has returned, 0 <= index <= length of the source, and
\* index is not smaller than before the call.
C24_BoundedForwardCursor ==
  /\ [](result.tag # "Panic" =>
          lexer.index >= 0 /\ lexer.index <= Len(lexer.source))
  /\ [][(calls' = calls + 1 /\ result'.tag # "Panic") =>
          lexer'.index >= lexer.index]_vars

\* CharTooLong reported after the handler stepped past the end of the buffer
C24_Witness ==
  /\ result.tag = "Err"
  /\ result.error.kind = "CharTooLong"
  /\ result.error.position.column = Len(lexer.source) + 2
  /\ lexer.index = Len(lexer.source)

\* the kind a bracket byte is lexed as
BracketKind(b) ==
  CASE b = PAREN_OPEN -> "ParenOpen"
    [] b = PAREN_CLOSE -> "ParenClose"
    [] b = SQUARE_OPEN -> "SquareOpen"
    [] b = SQUARE_CLOSE -> "SquareClose"
    [] b = BRACE_OPEN -> "BraceOpen"
    [] b = BRACE_CLOSE -> "BraceClose"
    [] OTHER -> "none"

\* C25: no call ends in an unreachable!() arm; paren, square and brace are
\* entered only at one of their two bytes; a call that starts at a bracket
\* byte returns the Open kind for the opening byte and the Close kind for
\* the closing byte, as a token of one column, and moves the cursor by one.
C25_BracketsTotal ==
  /\ [](result.tag = "Panic" => result.what # "unreachable")
  /\ [](/\ Handler = "paren" =>
             current_byte(lexer) \in {PAREN_OPEN, PAREN_CLOSE}
        /\ Handler = "square" =>
             current_byte(lexer) \in {SQUARE_OPEN, SQUARE_CLOSE}
        /\ Handler = "brace" =>
             current_byte(lexer) \in {BRACE_OPEN, BRACE_CLOSE})
  /\ [][(calls' = calls + 1
           /\ BracketKind(ByteAt(lexer.source, lexer.index)) # "none") =>
          /\ result' = SomeOk(Token_new(
                         BracketKind(ByteAt(lexer.source, lexer.index)), <<>>,
                         <<lexer.line, lexer.column>>,
                         <<lexer.line, lexer.column>>))
          /\ lexer' = [lexer EXCEPT !.index = @ + 1, !.column = @ + 1]]_vars

\* a closing brace lexed right after another token
C25_Witness ==
  /\ result.tag = "Ok"
  /\ result.token.kind = "BraceClose"
  /\ lexer.index = 2

\* C26: no call aborts in a slice or in from_utf8(..).unwrap(); the bytes of
\* an identifier or keyword run from the index before the call to the index
\* after it, a range that is not empty, ends inside the buffer and holds
\* identifier bytes only; a Char token's text is the one byte after the
\* opening apostrophe, a byte of the buffer in 0..=127.
C26_SlicesValid ==
  /\ [](result.tag = "Panic" => result.what \notin {"slice", "unwrap"})
  /\ [][(calls' = calls + 1
           /\ IsIdentStart(ByteAt(lexer.source, lexer.index))
           /\ lexer.index < Len(lexer.source)) =>
          /\ lexer.index < lexer'.index
          /\ lexer'.index <= Len(lexer.source)
          /\ \A i \in lexer.index .. (lexer'.index - 1) :
               IsIdentByte(lexer.source[i + 1])]_vars
  /\ [][(calls' = calls + 1 /\ result'.tag = "Ok"
                            /\ result'.token.kind = "Char") =>
          /\ lexer'.index = lexer.index + 3
          /\ lexer'.index <= Len(lexer.source)
          /\ lexer.source[lexer.index + 2] \in 0 .. 127
          /\ result'.token.value = <<lexer.source[lexer.index + 2]>>]_vars

\* an identifier whose slice ends at the end of the buffer
C26_Witness ==
  /\ result.tag = "Ok"
  /\ result.token.kind = "Identifier"
  /\ Len(result.token.value) = 3
  /\ lexer.index = Len(lexer.source)

====
